---------------------------- MODULE Spec2Model ----------------------------
(* StudyMate: the recommendation pipeline (preprocessing.py, similarity.py)  *)
(* and the HTTP handlers that trigger and read it (api.py), over the four    *)
(* tables of createTables.py.                                                *)
(*                                                                           *)
(* Scores are fixed-point integers.  A cosine is floor(Scale * cos); the     *)
(* combined similarity carries the weights 0.3 / 0.7 in tenths, the final    *)
(* score carries 0.7 / 0.3 in tenths again.  Over the vocabulary used here   *)
(* all real-valued scores that differ, differ by more than the rounding      *)
(* error, so order and ties are those of the code's floats.                  *)
(* Sequence positions are 1-based here and 0-based in the code.              *)
EXTENDS Integers, Sequences, FiniteSets, TLC

(***************************************************************************)
(* Bounds of the model                                                     *)
(***************************************************************************)
MaxUsers == 3
MaxK == 2
SeedUsers == 2
MaxSignups == 1
MaxRegs == 2
MaxReads == 1
MaxFailures == 1
MaxBatch == 5
MaxNegK == 2
MaxSimBatch == 2
MaxSignupReqs == 2
MaxTokens == 3
MaxLogouts == 2

(***************************************************************************)
(* Program constants                                                       *)
(***************************************************************************)
PreferredWeight == 3
StrengthWeight == 7
WeakWeight == 0
DemographicWeight == 0
RecScoreWeight == 7
OverlapWeight == 3
DefaultTopK == 5

Scale == 1000

\* subject_vocab, cut down to two subjects
subject_vocab == {"Algorithms", "Big Data"}

UserIds == 1..MaxUsers

(***************************************************************************)
(* Helpers: Python sequence operations                                     *)
(***************************************************************************)
Min(a, b) == IF a <= b THEN a ELSE b
Max(a, b) == IF a >= b THEN a ELSE b

Range(s) == {s[i] : i \in DOMAIN s}

\* s[::-1]  and  reversed(s)
Reverse(s) == [i \in 1..Len(s) |-> s[Len(s) + 1 - i]]

\* s[start:stop] with Python's clamping and negative indices
PySlice(s, start, stop) ==
    LET n == Len(s)
        norm(x) == IF x < 0 THEN Max(x + n, 0) ELSE Min(x, n)
        lo == norm(start)
        hi == norm(stop)
    IN IF lo >= hi THEN <<>> ELSE SubSeq(s, lo + 1, hi)

RECURSIVE Perms(_)
Perms(S) ==
    IF S = {} THEN {<<>>}
    ELSE UNION {{<<x>> \o p : p \in Perms(S \ {x})} : x \in S}

\* The results numpy's argsort (default kind, not stable) can return for one
\* matrix row: every ordering of the positions with ascending values.
Argsorts(row) ==
    {p \in Perms(1..Len(row)) :
        \A a \in 1..(Len(row) - 1) : row[p[a]] <= row[p[a + 1]]}

\* rec_scores[key] = val on a dict kept as its item sequence (insertion order)
DictPut(items, key, val) ==
    IF \E i \in 1..Len(items) : items[i][1] = key
    THEN [i \in 1..Len(items) |->
            IF items[i][1] = key THEN <<key, val>> ELSE items[i]]
    ELSE Append(items, <<key, val>>)

RECURSIVE InsertDesc(_, _)
InsertDesc(sorted, x) ==
    IF sorted = <<>> THEN <<x>>
    ELSE IF Head(sorted)[2] >= x[2]
         THEN <<Head(sorted)>> \o InsertDesc(Tail(sorted), x)
         ELSE <<x>> \o sorted

\* sorted(items, key=lambda x: x[1], reverse=True): stable, descending
RECURSIVE SortedByScoreDesc(_)
SortedByScoreDesc(items) ==
    IF items = <<>> THEN <<>>
    ELSE InsertDesc(SortedByScoreDesc(SubSeq(items, 1, Len(items) - 1)),
                    items[Len(items)])

(***************************************************************************)
(* similarity.py: compute_multi_dimensional_similarity                     *)
(***************************************************************************)
\* floor(Scale * d / sqrt(p)), and 0 for a zero norm (sklearn's normalize
\* leaves an all-zero row as it is, so its cosine with anything is 0)
CosineTable ==
    [d \in 0..Cardinality(subject_vocab),
     p \in 0..(Cardinality(subject_vocab) * Cardinality(subject_vocab)) |->
        IF p = 0 THEN 0
        ELSE CHOOSE r \in 0..(Scale * Cardinality(subject_vocab)) :
                /\ r * r * p <= Scale * Scale * d * d
                /\ (r + 1) * (r + 1) * p > Scale * Scale * d * d]

\* a cosine that takes two all-zero vectors for equal vectors
CosineZeroAsEqual(a, b) ==
    IF a = {} /\ b = {} THEN Scale
    ELSE CosineTable[Cardinality(a \cap b), Cardinality(a) * Cardinality(b)]

\* cosine of two multi-hot vectors, given as the sets of subjects they mark
Cosine(a, b) ==
    CosineTable[Cardinality(a \cap b), Cardinality(a) * Cardinality(b)]

\* the dot products divided by the square of the row's own norm only
cosine_by_row_norm(features, group) ==
    [i \in 1..Len(features) |->
        [j \in 1..Len(features) |->
            CosineTable[Cardinality(features[i][group] \cap features[j][group]),
                        Cardinality(features[i][group])
                        * Cardinality(features[i][group])]]]

\* cosine_similarity(features[cols]) for one group of columns
cosine_similarity(features, group) ==
    [i \in 1..Len(features) |->
        [j \in 1..Len(features) |-> Cosine(features[i][group], features[j][group])]]

\* the dict `weights`, in tenths
weights ==
    [preferred_weight |-> PreferredWeight, strength_weight |-> StrengthWeight,
     weak_weight |-> WeakWeight, demographic_weight |-> DemographicWeight]

\* multi_sim = weights['preferred_weight'] * preferred_sim
\*           + weights['strength_weight'] * strength_sim
multi_sim(w, features) ==
    LET preferred_sim == cosine_similarity(features, "preferred")
        strength_sim == cosine_similarity(features, "strength")
    IN [i \in 1..Len(features) |->
          [j \in 1..Len(features) |->
              w["preferred_weight"] * preferred_sim[i][j]
              + w["strength_weight"] * strength_sim[i][j]]]

compute_multi_dimensional_similarity(features) == multi_sim(weights, features)


(***************************************************************************)
(* similarity.py: advanced_recommendation_strategy                         *)
(***************************************************************************)
\* the slice without the skip of the first position
SimilarIndicesKeepFirst(order, top_k) == PySlice(Reverse(order), 0, top_k + 1)

\* similarity_matrix[idx].argsort()[::-1][1:top_k+1]
SimilarIndices(order, top_k) == PySlice(Reverse(order), 1, top_k + 1)

\* np.dot of the two rows' preferred_ columns
interests_overlap(features, idx, rec_idx) ==
    Cardinality(features[idx]["preferred"] \cap features[rec_idx]["preferred"])

\* 0.7 * rec_score + 0.3 * interests_overlap, in units of 1 / (100 * Scale)
final_score(similarity_matrix, features, idx, rec_idx) ==
    RecScoreWeight * similarity_matrix[idx][rec_idx]
    + OverlapWeight * interests_overlap(features, idx, rec_idx) * 10 * Scale

\* the loop over similar_indices that fills rec_scores
RECURSIVE rec_scores(_, _, _, _)
rec_scores(similarity_matrix, features, idx, similar_indices) ==
    IF similar_indices = <<>> THEN <<>>
    ELSE LET n == Len(similar_indices)
             rec_idx == similar_indices[n]
         IN DictPut(rec_scores(similarity_matrix, features, idx,
                               SubSeq(similar_indices, 1, n - 1)),
                    features[rec_idx]["user_id"],
                    final_score(similarity_matrix, features, idx, rec_idx))

\* sorted(rec_scores.items(), key=..., reverse=True)[:top_k]
SortedRecs(items, top_k) == PySlice(SortedByScoreDesc(items), 0, top_k)

\* [rec[0] for rec in reversed(v)]
ReturnedList(v) == [i \in 1..Len(v) |-> Reverse(v)[i][1]]

\* The list returned for row idx when argsort returned `order` for that row
RowRecommendations(similarity_matrix, features, idx, top_k, order) ==
    ReturnedList(
        SortedRecs(
            rec_scores(similarity_matrix, features, idx,
                       SimilarIndices(order, top_k)),
            top_k))

BatchIds(features) == {features[i]["user_id"] : i \in 1..Len(features)}

\* the user_id taken for the position of the row
RowByPosition(features, u) == IF u \in 1..Len(features) THEN u ELSE 1

\* recommendations[row["user_id"]] = ...: a later row with the same key wins
LastRowOf(features, u) ==
    CHOOSE i \in 1..Len(features) :
        /\ features[i]["user_id"] = u
        /\ \A j \in 1..Len(features) : features[j]["user_id"] = u => j <= i

\* What one build of numpy returns for a row: among equal values the lower
\* position first ("stable", the insertion sort used for short arrays) or
\* the higher position first ("reversed")
ArgsortKinds == {"stable", "reversed"}

Argsort(row, kind) ==
    CHOOSE p \in Argsorts(row) :
        \A a \in 1..(Len(row) - 1) :
            row[p[a]] = row[p[a + 1]] =>
                IF kind = "stable" THEN p[a] < p[a + 1] ELSE p[a] > p[a + 1]

\* The dict the function returns under a build of the given kind
advanced_recommendation_strategy(similarity_matrix, features, top_k, kind) ==
    [u \in BatchIds(features) |->
        RowRecommendations(similarity_matrix, features,
                           LastRowOf(features, u), top_k,
                           Argsort(similarity_matrix[LastRowOf(features, u)], kind))]

(***************************************************************************)
(* preprocessing.py: the encoding of the rows of `users`                   *)
(***************************************************************************)
\* The row signup inserts: ('', 0, '', {}, {}, {}, '', '', {})
SignupRow ==
    [study_level |-> "", learning_style |-> "", study_preference |-> "",
     preferred_subjects |-> {}, strengths |-> {}, weaknesses |-> {}]

categorical_cols == {"learning_style", "study_preference", "study_level"}

\* The category strings used, in Python's string order
CategoryOrder ==
    <<"", "Advanced", "Auditory", "Beginner", "Group", "Solo", "Visual">>

CategoryRank(v) == CHOOSE i \in 1..Len(CategoryOrder) : CategoryOrder[i] = v

\* pd.get_dummies(df, columns=categorical_cols, drop_first=True): one column
\* per value observed in the batch, except the first in sorted order
get_dummies(df) ==
    {<<c, df[i][c]>> : c \in categorical_cols, i \in 1..Len(df)}
    \ {<<c, v>> \in categorical_cols \X Range(CategoryOrder) :
          \A i \in 1..Len(df) : CategoryRank(df[i][c]) >= CategoryRank(v)}

\* encode_subjects: [1 if subject in user_subjects else 0 for subject in vocab],
\* the multi-hot vector kept as the set of vocabulary subjects it marks
encode_subjects(user_subjects) == {s \in subject_vocab : s \in user_subjects}

\* df["encoded_features"] for row i of the frame
encoded_features(df, i) ==
    [user_id |-> df[i]["user_id"],
     preferred |-> encode_subjects(df[i]["preferred_subjects"]),
     strength |-> encode_subjects(df[i]["strengths"]),
     weak |-> encode_subjects(df[i]["weaknesses"]),
     dummy_columns |-> get_dummies(df),
     dummies |-> {<<c, df[i][c]>> : c \in categorical_cols} \cap get_dummies(df)]

\* The frame a SELECT without ORDER BY returns for a table kept as a function
\* of user_id: the rows in ascending user_id
RECURSIVE ScanOrder(_)
ScanOrder(S) ==
    IF S = {} THEN <<>>
    ELSE LET m == CHOOSE x \in S : \A y \in S : x <= y
         IN <<m>> \o ScanOrder(S \ {m})

\* pd.read_sql("SELECT * FROM users", conn)
UsersFrame(tbl) ==
    LET ids == ScanOrder(DOMAIN tbl)
    IN [i \in 1..Len(ids) |->
          [user_id |-> ids[i],
           study_level |-> tbl[ids[i]]["study_level"],
           learning_style |-> tbl[ids[i]]["learning_style"],
           study_preference |-> tbl[ids[i]]["study_preference"],
           preferred_subjects |-> tbl[ids[i]]["preferred_subjects"],
           strengths |-> tbl[ids[i]]["strengths"],
           weaknesses |-> tbl[ids[i]]["weaknesses"]]]

\* The rows preprocessing.py inserts, keyed by user_id
EncodedRows(df) ==
    [u \in {df[i]["user_id"] : i \in 1..Len(df)} |->
        encoded_features(df, CHOOSE i \in 1..Len(df) : df[i]["user_id"] = u)]

\* similarity.py: pd.read_sql("SELECT user_id, encoded_features FROM preprocessed")
FeaturesFrame(rows) ==
    LET ids == ScanOrder(DOMAIN rows)
    IN [i \in 1..Len(ids) |-> rows[ids[i]]]

(***************************************************************************)
(* State                                                                   *)
(***************************************************************************)
VARIABLES
    users,         \* table users: user_id -> row (committed)
    nextUserId,    \* the SERIAL sequence behind users.user_id
    login,         \* table login: user_id -> [username]
    preprocessed,  \* table preprocessed: [ver, rows, src]; ver counts its commits,
                   \* src (history) is the value of `users` its rows were made from
    recommended,   \* table recommended: [ver, rows, src]
    su,            \* signup requests: slot -> [pc, username, user_id, response]
    reg,           \* register_preferences requests and their two subprocesses
    rd,            \* get_recommendations requests
    failures,      \* number of failures the environment has injected
    argsortKind,   \* how this build's argsort orders equal values
    lastComplete,  \* history: the dict stored by the last commit of similarity.py
    rkFeatures,    \* ranker run: the features frame (rows of `preprocessed`)
    rkTopK,        \* ranker run: top_k
    rkIdx,         \* ranker run: the row of the loop that was computed
    rkList,        \* ranker run: the list returned for that row
    rkPc,          \* ranker run: "start" | "done" | "done2"
    rk2Features,   \* second ranker run: the frame read from the same rows
    rk2List,       \* second ranker run: the list returned for the same user
    smWeights,     \* similarity run: the contents of the dict `weights`
    smMatrix,      \* similarity run: the matrix returned
    active_sessions, \* api.py's dict: session token -> user_id
    nextToken,     \* the tokens uuid.uuid4() has produced so far, as a count
    lo,            \* logout requests (threadpool): slot -> [pc, token, ...]
    lastLogin,     \* the last login request and its response
    me,            \* the last get_current_user_data request and its response
    issued         \* history: token -> user of the successful logins whose
                   \* token no successful logout has been given since

dbVars == <<users, nextUserId, login, preprocessed, recommended>>
sessVars == <<active_sessions, nextToken, lo, lastLogin, me, issued>>
mainVars == <<users, nextUserId, login, preprocessed, recommended, su, reg, rd,
              failures, argsortKind, lastComplete, sessVars>>
smVars == <<smWeights, smMatrix>>
rkVars == <<rkFeatures, rkTopK, rkIdx, rkList, rkPc, rk2Features, rk2List,
            smWeights, smMatrix, sessVars>>
vars == <<users, nextUserId, login, preprocessed, recommended, su, reg, rd,
          failures, argsortKind, lastComplete,
          rkFeatures, rkTopK, rkIdx, rkList, rkPc, rk2Features, rk2List,
          smWeights, smMatrix,
          active_sessions, nextToken, lo, lastLogin, me, issued>>

EmptyRows == [u \in {} |-> 0]

Signups == 1..MaxSignups
Regs == 1..MaxRegs
Reads == 1..MaxReads

Logouts == 1..MaxLogouts

\* active_sessions = {} at import, and no session request made yet
InitSessions ==
    /\ active_sessions = EmptyRows
    /\ nextToken = 0
    /\ lo = [k \in Logouts |-> [pc |-> "idle", session_token |-> 0,
                                response |-> "", wasIssued |-> FALSE]]
    /\ lastLogin = [username |-> "", response |-> "", session_token |-> 0,
                    user_id |-> 0]
    /\ me = [authorization |-> <<>>, response |-> "", wasIssued |-> FALSE]
    /\ issued = EmptyRows

IdleReg ==
    [pc |-> "idle", user_id |-> 0, prefs |-> SignupRow,
     out |-> EmptyRows, src |-> EmptyRows, delVer |-> -1, ins |-> {},
     preExit |-> -1, simExit |-> -1, response |-> ""]

SeedNames == <<"ann", "bob", "cat", "dan", "eve">>

\* the state after createTables.py and SeedUsers signups: the rows signup
\* wrote, nothing preprocessed or recommended yet, no request in flight
InitMain ==
    /\ users = [u \in 1..SeedUsers |-> SignupRow]
    /\ nextUserId = SeedUsers + 1
    /\ login = [u \in 1..SeedUsers |-> [username |-> SeedNames[u]]]
    /\ preprocessed = [ver |-> 0, rows |-> EmptyRows, src |-> EmptyRows]
    /\ recommended = [ver |-> 0, rows |-> EmptyRows, src |-> EmptyRows]
    /\ su = [s \in Signups |-> [pc |-> "idle", username |-> "", user_id |-> 0,
                                response |-> ""]]
    /\ reg = [r \in Regs |-> IdleReg]
    /\ rd = [g \in Reads |-> [pc |-> "idle", user_id |-> 0, obs |-> <<>>,
                              expected |-> <<>>, midWrite |-> FALSE,
                              response |-> ""]]
    /\ failures = 0
    /\ argsortKind \in ArgsortKinds
    /\ lastComplete = EmptyRows
    /\ InitSessions

InitRankIdle ==
    /\ rkFeatures = <<>>
    /\ rkTopK = 0
    /\ rkIdx = 0
    /\ rkList = <<>>
    /\ rkPc = "off"
    /\ rk2Features = <<>>
    /\ rk2List = <<>>
    /\ smWeights = weights
    /\ smMatrix = <<>>

(***************************************************************************)
(* The ranker on one batch.  The iterations of its loop over the rows      *)
(* share no state, so the run is followed for one row at a time.           *)
(***************************************************************************)
\* the values of preferred_subjects, and of strengths (drawn from the first
\* subject only, to keep the number of batches small)
PreferredSets == SUBSET subject_vocab
StrengthSets == SUBSET {"Algorithms"}

\* The user_id column of a frame of n rows: the rows come back in heap order,
\* taken here as ascending or as descending in user_id.
IdColumns(n) == {[i \in 1..n |-> i], [i \in 1..n |-> n + 1 - i]}

RECURSIVE Columns(_, _)
Columns(n, values) ==
    IF n = 0 THEN {<<>>}
    ELSE {Append(c, x) : c \in Columns(n - 1, values), x \in values}

\* features frames of n rows with pairwise distinct user_id (PRIMARY KEY)
Frames(n) ==
    {[i \in 1..n |-> [user_id |-> ids[i], preferred |-> p[i], strength |-> s[i]]] :
        ids \in IdColumns(n), p \in Columns(n, PreferredSets),
        s \in Columns(n, StrengthSets)}

InitRank ==
    /\ InitMain
    /\ rkFeatures \in UNION {Frames(n) : n \in 1..MaxUsers}
    /\ rkTopK \in 1..MaxK
    /\ rkIdx = 0
    /\ rkList = <<>>
    /\ rkPc = "start"
    /\ rk2Features = <<>>
    /\ rk2List = <<>>
    /\ smWeights = weights
    /\ smMatrix = <<>>

RankRow(idx) ==
    /\ rkPc = "start"
    /\ \E order \in Argsorts(compute_multi_dimensional_similarity(rkFeatures)[idx]) :
          rkList' = RowRecommendations(
                        compute_multi_dimensional_similarity(rkFeatures),
                        rkFeatures, idx, rkTopK, order)
    /\ rkIdx' = idx
    /\ rkPc' = "done"
    /\ UNCHANGED <<rkFeatures, rkTopK, rk2Features, rk2List, smVars>>
    /\ UNCHANGED mainVars

NextRank == \E idx \in 1..Len(rkFeatures) : RankRow(idx)

SpecRank == InitRank /\ [][NextRank]_vars

(***************************************************************************)
(* compute_multi_dimensional_similarity on one batch, for the values the   *)
(* four entries of the dict `weights` can be given.  The profiles of the   *)
(* batch have the same age and categories.                                 *)
(***************************************************************************)
Abs(x) == IF x < 0 THEN 0 - x ELSE x

weak_sim(features) == cosine_similarity(features, "weak")

\* 1 - np.abs(cosine_similarity(scaled_numeric) - 1) for a batch whose
\* demographic columns are constant: StandardScaler gives all-zero rows
demographic_sim(features) ==
    [i \in 1..Len(features) |->
        [j \in 1..Len(features) |-> Scale - Abs(Cosine({}, {}) - Scale)]]

WeightValues == {0, PreferredWeight, StrengthWeight}

WeightMaps ==
    [{"preferred_weight", "strength_weight", "weak_weight", "demographic_weight"}
        -> WeightValues]

SimFrames(n) ==
    {[i \in 1..n |-> [user_id |-> i, preferred |-> p[i], strength |-> s[i],
                      weak |-> w[i]]] :
        p \in Columns(n, PreferredSets), s \in Columns(n, StrengthSets),
        w \in Columns(n, StrengthSets)}

InitSim ==
    /\ InitMain
    /\ rkFeatures \in UNION {SimFrames(n) : n \in 1..MaxSimBatch}
    /\ rkTopK = 0
    /\ rkIdx = 0
    /\ rkList = <<>>
    /\ rkPc = "start"
    /\ rk2Features = <<>>
    /\ rk2List = <<>>
    /\ smWeights \in WeightMaps
    /\ smMatrix = <<>>

ComputeSimilarity ==
    /\ rkPc = "start"
    /\ smMatrix' = multi_sim(smWeights, rkFeatures)
    /\ rkPc' = "done"
    /\ UNCHANGED <<rkFeatures, rkTopK, rkIdx, rkList, rk2Features, rk2List,
                   smWeights>>
    /\ UNCHANGED mainVars

SpecSim == InitSim /\ [][ComputeSimilarity]_vars

(***************************************************************************)
(* The ranker called with top_k <= 0, on batches of up to MaxBatch rows.   *)
(***************************************************************************)
TopKFrames(n) ==
    {[i \in 1..n |-> [user_id |-> i, preferred |-> {}, strength |-> s[i]]] :
        s \in Columns(n, StrengthSets)}

InitTopK ==
    /\ InitMain
    /\ rkFeatures \in UNION {TopKFrames(n) : n \in 1..MaxBatch}
    /\ rkTopK \in (0 - MaxNegK)..0
    /\ rkIdx = 0
    /\ rkList = <<>>
    /\ rkPc = "start"
    /\ rk2Features = <<>>
    /\ rk2List = <<>>
    /\ smWeights = weights
    /\ smMatrix = <<>>

SpecTopK == InitTopK /\ [][NextRank]_vars

(***************************************************************************)
(* The ranker run twice by one build on the same rows.  Between the two    *)
(* runs the rows may have changed places in the heap (an UPDATE writes a   *)
(* new row version), so the second frame holds them in the same or in the  *)
(* opposite order.                                                         *)
(***************************************************************************)
InitTwice ==
    /\ InitMain
    /\ rkFeatures \in UNION {Frames(n) : n \in 1..MaxUsers}
    /\ rk2Features \in {rkFeatures, Reverse(rkFeatures)}
    /\ rkTopK \in 1..MaxK
    /\ rkIdx = 0
    /\ rkList = <<>>
    /\ rk2List = <<>>
    /\ smWeights = weights
    /\ smMatrix = <<>>
    /\ rkPc = "start"

RankOnce(idx) ==
    /\ rkPc = "start"
    /\ LET similarity_matrix == compute_multi_dimensional_similarity(rkFeatures)
       IN rkList' = RowRecommendations(
                        similarity_matrix, rkFeatures, idx, rkTopK,
                        Argsort(similarity_matrix[idx], argsortKind))
    /\ rkIdx' = idx
    /\ rkPc' = "done"
    /\ UNCHANGED <<rkFeatures, rkTopK, rk2Features, rk2List, smVars>>
    /\ UNCHANGED mainVars

RankAgain ==
    /\ rkPc = "done"
    /\ LET similarity_matrix == compute_multi_dimensional_similarity(rk2Features)
           idx == LastRowOf(rk2Features, rkFeatures[rkIdx]["user_id"])
       IN rk2List' = RowRecommendations(
                         similarity_matrix, rk2Features, idx, rkTopK,
                         Argsort(similarity_matrix[idx], argsortKind))
    /\ rkPc' = "done2"
    /\ UNCHANGED <<rkFeatures, rkTopK, rkIdx, rkList, rk2Features, smVars>>
    /\ UNCHANGED mainVars

NextTwice ==
    \/ \E idx \in 1..Len(rkFeatures) : RankOnce(idx)
    \/ RankAgain

SpecTwice == InitTwice /\ [][NextTwice]_vars

(***************************************************************************)
(* similarity.py main run alone on one batch: the rows of `preprocessed`   *)
(* come back in ascending or in descending user_id, and the dict computed  *)
(* with the default top_k replaces the rows of `recommended` in one        *)
(* transaction.                                                            *)
(***************************************************************************)
InitBatch ==
    /\ InitMain
    /\ rkFeatures \in UNION {Frames(n) : n \in 1..MaxUsers}
    /\ rkTopK = DefaultTopK
    /\ rkIdx = 0
    /\ rkList = <<>>
    /\ rkPc = "start"
    /\ rk2Features = <<>>
    /\ rk2List = <<>>
    /\ smWeights = weights
    /\ smMatrix = <<>>

SimilarityMain ==
    /\ rkPc = "start"
    /\ smMatrix' = compute_multi_dimensional_similarity(rkFeatures)
    /\ recommended' =
          [ver |-> recommended.ver + 1,
           rows |-> advanced_recommendation_strategy(
                        compute_multi_dimensional_similarity(rkFeatures),
                        rkFeatures, rkTopK, argsortKind),
           src |-> recommended.src]
    /\ rkPc' = "done"
    /\ UNCHANGED <<rkFeatures, rkTopK, rkIdx, rkList, rk2Features, rk2List,
                   smWeights>>
    /\ UNCHANGED <<users, nextUserId, login, preprocessed, su, reg, rd,
                   failures, argsortKind, lastComplete, sessVars>>

SpecBatch == InitBatch /\ [][SimilarityMain]_vars

(***************************************************************************)
(* db.py and the two drivers                                               *)
(***************************************************************************)
\* a connection that commits every statement by itself
AutoCommitOn == TRUE

\* connect_db: psycopg2.connect leaves autocommit off, so the statements of
\* one script run in one transaction that ends at conn.commit(); asyncpg in
\* api.py commits every statement by itself.
AutoCommit == FALSE

Overlay(a, b) ==
    [k \in (DOMAIN a) \cup (DOMAIN b) |-> IF k \in DOMAIN b THEN b[k] ELSE a[k]]

PreWritePcs == {"pre_insert", "pre_commit"}
SimWritePcs == {"sim_insert", "sim_commit"}

\* DELETE FROM t waits while another open transaction has deleted the rows
RowLockHeld(table, r, writePcs) ==
    /\ ~AutoCommit
    /\ DOMAIN table.rows # {}
    /\ \E q \in Regs \ {r} : reg[q].pc \in writePcs /\ reg[q].delVer = table.ver

\* INSERT of key k waits while another open transaction has inserted k
InsertBlocked(k, r, writePcs) ==
    /\ ~AutoCommit
    /\ \E q \in Regs \ {r} : reg[q].pc \in writePcs /\ k \in reg[q].ins

\* PRIMARY KEY: k is the key of a committed row this transaction did not delete
UniqueViolation(table, r, k) ==
    /\ k \in DOMAIN table.rows
    /\ (AutoCommit \/ table.ver # reg[r].delVer)

\* for ... : cursor.execute("INSERT ..."): the next row of the loop
NextKey(r) ==
    CHOOSE k \in (DOMAIN reg[r].out) \ reg[r].ins :
        \A j \in (DOMAIN reg[r].out) \ reg[r].ins : k <= j

\* The table after cursor.execute("DELETE FROM t")
AfterDelete(table) ==
    IF AutoCommit THEN [table EXCEPT !.ver = @ + 1, !.rows = EmptyRows] ELSE table

\* The table after one cursor.execute("INSERT ...") of key k
AfterInsert(table, r, k) ==
    IF AutoCommit
    THEN [table EXCEPT !.ver = @ + 1,
                       !.rows = Overlay(table.rows, k :> reg[r].out[k])]
    ELSE table

\* a commit after which the rows the transaction deleted are still there
AfterCommitKeepingRows(table, r) ==
    [ver |-> table.ver + 1,
     rows |-> Overlay(table.rows, [k \in reg[r].ins |-> reg[r].out[k]]),
     src |-> reg[r].src]

\* The table after conn.commit(): the rows this transaction deleted are gone,
\* the rows it inserted are there
AfterCommit(table, r) ==
    IF AutoCommit THEN [table EXCEPT !.src = reg[r].src]
    ELSE [ver |-> table.ver + 1,
          rows |-> Overlay(IF table.ver = reg[r].delVer THEN EmptyRows
                           ELSE table.rows,
                           [k \in reg[r].ins |-> reg[r].out[k]]),
          src |-> reg[r].src]

(***************************************************************************)
(* api.py: signup                                                          *)
(***************************************************************************)
\* the usernames requested: one taken by a seeded account, one new
Usernames == {"ann", "zoe"}

UsernameTaken(name) == \E u \in DOMAIN login : login[u]["username"] = name

SignupSelect(s, name) ==
    /\ su[s].pc = "idle"
    /\ su' = [su EXCEPT ![s] =
                IF UsernameTaken(name)
                THEN [@ EXCEPT !.pc = "done", !.username = name, !.response = "400"]
                ELSE [@ EXCEPT !.pc = "insert_user", !.username = name]]
    /\ UNCHANGED <<dbVars, reg, rd, failures, lastComplete, argsortKind, rkVars>>

SignupInsertUser(s) ==
    /\ su[s].pc = "insert_user"
    /\ users' = Overlay(users, nextUserId :> SignupRow)
    /\ nextUserId' = nextUserId + 1
    /\ su' = [su EXCEPT ![s].pc = "insert_login", ![s].user_id = nextUserId]
    /\ UNCHANGED <<login, preprocessed, recommended, reg, rd, failures,
                   lastComplete, argsortKind, rkVars>>

SignupInsertLogin(s) ==
    /\ su[s].pc = "insert_login"
    /\ IF UsernameTaken(su[s].username)
       THEN /\ su' = [su EXCEPT ![s].pc = "done", ![s].response = "500"]
            /\ login' = login
       ELSE /\ su' = [su EXCEPT ![s].pc = "done", ![s].response = "200"]
            /\ login' = Overlay(login,
                                su[s].user_id :> [username |-> su[s].username])
    /\ UNCHANGED <<users, nextUserId, preprocessed, recommended, reg, rd,
                   failures, lastComplete, argsortKind, rkVars>>

(***************************************************************************)
(* api.py: register_preferences, with preprocessing.py and similarity.py   *)
(***************************************************************************)
\* the request bodies used
PrefInputs ==
    {[study_level |-> "Beginner", learning_style |-> "Visual",
      study_preference |-> "Group",
      preferred_subjects |-> {"Algorithms", "Big Data"},
      strengths |-> {"Algorithms"}, weaknesses |-> {}],
     [study_level |-> "Advanced", learning_style |-> "Auditory",
      study_preference |-> "Solo",
      preferred_subjects |-> {"Algorithms", "Cooking"},
      strengths |-> {}, weaknesses |-> {"Big Data"}]}

\* SELECT * FROM users WHERE user_id=$1, and the 404
RegSelect(r, u, prefs) ==
    /\ reg[r].pc = "idle"
    /\ \A q \in Regs : q < r => reg[q].pc # "idle"
    /\ reg' = [reg EXCEPT ![r] =
                IF u \in DOMAIN users
                THEN [@ EXCEPT !.pc = "update", !.user_id = u, !.prefs = prefs]
                ELSE [@ EXCEPT !.pc = "done", !.user_id = u, !.response = "404"]]
    /\ UNCHANGED <<dbVars, su, rd, failures, lastComplete, argsortKind, rkVars>>

\* UPDATE users SET ... WHERE user_id=$10; then preprocessing.py is started
RegUpdate(r) ==
    /\ reg[r].pc = "update"
    /\ users' = [users EXCEPT ![reg[r].user_id] = reg[r].prefs]
    /\ reg' = [reg EXCEPT ![r].pc = "pre_load"]
    /\ UNCHANGED <<nextUserId, login, preprocessed, recommended, su, rd,
                   failures, lastComplete, argsortKind, rkVars>>

\* api.py goes on to similarity.py whatever preprocessing.py's exit status
AfterPreprocess(exit) == "sim_load"

\* the response of register_preferences, whatever the two exit statuses
RegResponse(preExit, simExit) == "recommendations generated"

PreExit(r, status) ==
    [reg[r] EXCEPT !.pc = AfterPreprocess(status), !.preExit = status,
                   !.out = EmptyRows, !.src = EmptyRows, !.delVer = -1,
                   !.ins = {}]

SimExit(r, status) ==
    [reg[r] EXCEPT !.pc = "respond", !.simExit = status,
                   !.out = EmptyRows, !.src = EmptyRows, !.delVer = -1,
                   !.ins = {}]

\* preprocessing.py main, lines 29-105: connect, load `users`, encode.
\* MinMaxScaler.fit_transform raises on a frame without rows.
PreLoad(r) ==
    /\ reg[r].pc = "pre_load"
    /\ LET df == UsersFrame(users)
       IN reg' = [reg EXCEPT ![r] =
                    IF Len(df) = 0 THEN PreExit(r, 1)
                    ELSE [@ EXCEPT !.pc = "pre_delete", !.out = EncodedRows(df),
                                  !.src = users]]
    /\ UNCHANGED <<dbVars, su, rd, failures, lastComplete, argsortKind, rkVars>>

\* a script whose DELETE names `users` instead of its own table
PreDeleteFromUsers(r) ==
    /\ reg[r].pc = "pre_delete"
    /\ users' = EmptyRows
    /\ reg' = [reg EXCEPT ![r].pc = "pre_insert",
                          ![r].delVer = preprocessed.ver]
    /\ UNCHANGED <<nextUserId, login, preprocessed, recommended, su, rd,
                   failures, lastComplete, argsortKind, rkVars>>

\* cursor.execute("DELETE FROM preprocessed")
PreDelete(r) ==
    /\ reg[r].pc = "pre_delete"
    /\ ~RowLockHeld(preprocessed, r, PreWritePcs)
    /\ preprocessed' = AfterDelete(preprocessed)
    /\ reg' = [reg EXCEPT ![r].pc = "pre_insert",
                          ![r].delVer = preprocessed'.ver]
    /\ UNCHANGED <<users, nextUserId, login, recommended, su, rd, failures,
                   lastComplete, argsortKind, rkVars>>

\* one cursor.execute("INSERT INTO preprocessed ...") of the loop
PreInsert(r) ==
    /\ reg[r].pc = "pre_insert"
    /\ LET k == NextKey(r)
       IN /\ ~InsertBlocked(k, r, PreWritePcs)
          /\ IF UniqueViolation(preprocessed, r, k)
             THEN /\ reg' = [reg EXCEPT ![r] = PreExit(r, 1)]
                  /\ preprocessed' = preprocessed
             ELSE /\ preprocessed' = AfterInsert(preprocessed, r, k)
                  /\ reg' = [reg EXCEPT
                        ![r].ins = @ \cup {k},
                        ![r].delVer = IF AutoCommit THEN preprocessed'.ver ELSE @,
                        ![r].pc = IF (DOMAIN reg[r].out) \ reg[r].ins = {k}
                                  THEN "pre_commit" ELSE "pre_insert"]
    /\ UNCHANGED <<users, nextUserId, login, recommended, su, rd, failures,
                   lastComplete, argsortKind, rkVars>>

\* conn.commit(), and the script exits 0
PreCommit(r) ==
    /\ reg[r].pc = "pre_commit"
    /\ preprocessed' = AfterCommit(preprocessed, r)
    /\ reg' = [reg EXCEPT ![r] = PreExit(r, 0)]
    /\ UNCHANGED <<users, nextUserId, login, recommended, su, rd, failures,
                   lastComplete, argsortKind, rkVars>>

\* an exception in any statement of preprocessing.py (connection, load, write):
\* conn.rollback() / conn.close(), exit(1)
PreFail(r) ==
    /\ reg[r].pc \in {"pre_load", "pre_delete", "pre_insert", "pre_commit"}
    /\ failures < MaxFailures
    /\ failures' = failures + 1
    /\ reg' = [reg EXCEPT ![r] = PreExit(r, 1)]
    /\ UNCHANGED <<dbVars, su, rd, lastComplete, argsortKind, rkVars>>

\* similarity.py main, lines 147-177: connect, load `preprocessed`, compute
\* the matrix and the recommendations.  cosine_similarity raises on a frame
\* without rows.
SimLoad(r) ==
    /\ reg[r].pc = "sim_load"
    /\ LET features == FeaturesFrame(preprocessed.rows)
       IN IF Len(features) = 0
          THEN reg' = [reg EXCEPT ![r] = SimExit(r, 1)]
          ELSE reg' = [reg EXCEPT
                  ![r].pc = "sim_delete",
                  ![r].src = preprocessed.src,
                  ![r].out = advanced_recommendation_strategy(
                                compute_multi_dimensional_similarity(features),
                                features, DefaultTopK, argsortKind)]
    /\ UNCHANGED <<dbVars, su, rd, failures, lastComplete, argsortKind, rkVars>>

\* cursor.execute("DELETE FROM recommended")
SimDelete(r) ==
    /\ reg[r].pc = "sim_delete"
    /\ ~RowLockHeld(recommended, r, SimWritePcs)
    /\ recommended' = AfterDelete(recommended)
    /\ reg' = [reg EXCEPT ![r].pc = "sim_insert",
                          ![r].delVer = recommended'.ver]
    /\ UNCHANGED <<users, nextUserId, login, preprocessed, su, rd, failures,
                   lastComplete, argsortKind, rkVars>>

\* one cursor.execute("INSERT INTO recommended ...") of the loop
SimInsert(r) ==
    /\ reg[r].pc = "sim_insert"
    /\ LET k == NextKey(r)
       IN /\ ~InsertBlocked(k, r, SimWritePcs)
          /\ IF UniqueViolation(recommended, r, k)
             THEN /\ reg' = [reg EXCEPT ![r] = SimExit(r, 1)]
                  /\ recommended' = recommended
             ELSE /\ recommended' = AfterInsert(recommended, r, k)
                  /\ reg' = [reg EXCEPT
                        ![r].ins = @ \cup {k},
                        ![r].delVer = IF AutoCommit THEN recommended'.ver ELSE @,
                        ![r].pc = IF (DOMAIN reg[r].out) \ reg[r].ins = {k}
                                  THEN "sim_commit" ELSE "sim_insert"]
    /\ UNCHANGED <<users, nextUserId, login, preprocessed, su, rd, failures,
                   lastComplete, argsortKind, rkVars>>

\* conn.commit(), and the script exits 0
SimCommit(r) ==
    /\ reg[r].pc = "sim_commit"
    /\ recommended' = AfterCommit(recommended, r)
    /\ lastComplete' = reg[r].out
    /\ reg' = [reg EXCEPT ![r] = SimExit(r, 0)]
    /\ UNCHANGED <<users, nextUserId, login, preprocessed, su, rd, failures,
                   argsortKind, rkVars>>

\* an exception in any statement of similarity.py: the connection is closed
\* without a commit, exit(1)
SimFail(r) ==
    /\ reg[r].pc \in {"sim_load", "sim_delete", "sim_insert", "sim_commit"}
    /\ failures < MaxFailures
    /\ failures' = failures + 1
    /\ reg' = [reg EXCEPT ![r] = SimExit(r, 1)]
    /\ UNCHANGED <<dbVars, su, rd, lastComplete, argsortKind, rkVars>>

\* asyncio.create_subprocess_exec raises (the interpreter cannot be started)
\* before preprocessing.py or before similarity.py has run: the except branch
\* prints the error and the handler goes on to its return with the remaining
\* stages skipped
SpawnFail(r) ==
    /\ reg[r].pc \in {"pre_load", "sim_load"}
    /\ failures < MaxFailures
    /\ failures' = failures + 1
    /\ reg' = [reg EXCEPT ![r].pc = "respond"]
    /\ UNCHANGED <<dbVars, su, rd, lastComplete, argsortKind, rkVars>>

\* return {"message": "User preferences updated and recommendations generated!"}
RegRespond(r) ==
    /\ reg[r].pc = "respond"
    /\ reg' = [reg EXCEPT ![r].pc = "done",
                          ![r].response = RegResponse(reg[r].preExit, reg[r].simExit)]
    /\ UNCHANGED <<dbVars, su, rd, failures, lastComplete, argsortKind, rkVars>>

(***************************************************************************)
(* api.py: get_recommendations                                             *)
(***************************************************************************)
\* the ids asked for: a user and an id no user has
ReadIds == {1, SeedUsers + MaxSignups + 1}

RowOrNone(rows, u) == IF u \in DOMAIN rows THEN <<rows[u]>> ELSE <<>>

\* SELECT * FROM users WHERE user_id=$1, and the 404
ReadUser(g, u) ==
    /\ rd[g].pc = "idle"
    /\ rd' = [rd EXCEPT ![g] =
                IF u \in DOMAIN users
                THEN [@ EXCEPT !.pc = "select_rec", !.user_id = u]
                ELSE [@ EXCEPT !.pc = "done", !.user_id = u, !.response = "404"]]
    /\ UNCHANGED <<dbVars, su, reg, failures, lastComplete, argsortKind, rkVars>>

\* SELECT recommendations FROM recommended WHERE user_id=$1
ReadRecommended(g) ==
    /\ rd[g].pc = "select_rec"
    /\ rd' = [rd EXCEPT
          ![g].obs = RowOrNone(recommended.rows, rd[g].user_id),
          ![g].expected = RowOrNone(lastComplete, rd[g].user_id),
          ![g].midWrite = \E r \in Regs :
                             /\ reg[r].pc \in SimWritePcs
                             /\ reg[r].ins # {}
                             /\ reg[r].ins # DOMAIN reg[r].out,
          ![g].pc = IF rd[g].user_id \in DOMAIN recommended.rows
                    THEN "select_partners" ELSE "done",
          ![g].response = IF rd[g].user_id \in DOMAIN recommended.rows
                          THEN "" ELSE "200 empty"]
    /\ UNCHANGED <<dbVars, su, reg, failures, lastComplete, argsortKind, rkVars>>

\* SELECT * FROM users WHERE user_id = ANY($1::int[])
ReadPartners(g) ==
    /\ rd[g].pc = "select_partners"
    /\ rd' = [rd EXCEPT ![g].pc = "done", ![g].response = "200"]
    /\ UNCHANGED <<dbVars, su, reg, failures, lastComplete, argsortKind, rkVars>>

(***************************************************************************)
(* The service                                                             *)
(***************************************************************************)
Init == InitMain /\ InitRankIdle

Next ==
    \/ \E r \in Regs, u \in 1..(SeedUsers + MaxSignups), prefs \in PrefInputs : RegSelect(r, u, prefs)
    \/ \E r \in Regs : RegUpdate(r)
    \/ \E r \in Regs : PreLoad(r)
    \/ \E r \in Regs : PreDelete(r)
    \/ \E r \in Regs : PreInsert(r)
    \/ \E r \in Regs : PreCommit(r)
    \/ \E r \in Regs : PreFail(r)
    \/ \E r \in Regs : SimLoad(r)
    \/ \E r \in Regs : SimDelete(r)
    \/ \E r \in Regs : SimInsert(r)
    \/ \E r \in Regs : SimCommit(r)
    \/ \E r \in Regs : SimFail(r)
    \/ \E r \in Regs : SpawnFail(r)
    \/ \E r \in Regs : RegRespond(r)
    \/ \E g \in Reads, u \in ReadIds : ReadUser(g, u)
    \/ \E g \in Reads : ReadRecommended(g)
    \/ \E g \in Reads : ReadPartners(g)

Spec == Init /\ [][Next]_vars

(***************************************************************************)
(* api.py: login, logout, get_current_user_data and the dict               *)
(* active_sessions.  login and get_current_user_data are coroutines: the   *)
(* lines that use the dict have no await between them.  logout is a plain  *)
(* function, which FastAPI runs in a thread of its pool, so the test and   *)
(* the del of two calls can interleave.                                    *)
(***************************************************************************)
otherVars == <<dbVars, su, reg, rd, failures, argsortKind, lastComplete,
               rkFeatures, rkTopK, rkIdx, rkList, rkPc, rk2Features, rk2List,
               smVars>>

\* the password stored with a seeded account is its username
StoredPassword(u) == login[u]["username"]

\* SELECT user_id FROM login WHERE username=$1 AND password=$2
LoginRows(username, password) ==
    {u \in DOMAIN login : /\ login[u]["username"] = username
                          /\ StoredPassword(u) = password}

\* the request bodies used: two accounts, a wrong password, an unknown name
LoginInputs == {<<"ann", "ann">>, <<"bob", "bob">>, <<"ann", "bad">>,
                <<"zoe", "zoe">>}

\* the tokens a client can send: those handed out so far, and 0 for a string
\* that was never handed out
KnownTokens == 0..nextToken

\* active_sessions[session_token] = user["user_id"]
DictSet(d, key, val) == Overlay(d, key :> val)

\* a del that leaves the entry in the dict
DictKeep(d, key) == d

\* del active_sessions[session_token]
DictDel(d, key) == [k \in (DOMAIN d) \ {key} |-> d[k]]

\* active_sessions.get(session_token): None is written 0 here, and `not
\* user_id` is true of None and of 0 alike
DictGet(d, key) == IF key \in DOMAIN d THEN d[key] ELSE 0

\* login: the 401, or a token from uuid.uuid4() (never one handed out
\* before) stored in the dict and returned
Login(username, password) ==
    /\ nextToken < MaxTokens
    /\ LET found == LoginRows(username, password)
       IN IF found = {}
          THEN /\ lastLogin' = [username |-> username, response |-> "401",
                                session_token |-> 0, user_id |-> 0]
               /\ UNCHANGED <<active_sessions, nextToken, issued>>
          ELSE LET user_id == CHOOSE u \in found : TRUE
                   session_token == nextToken + 1
               IN /\ active_sessions' = DictSet(active_sessions, session_token, user_id)
                  /\ nextToken' = session_token
                  /\ issued' = Overlay(issued, session_token :> user_id)
                  /\ lastLogin' = [username |-> username, response |-> "200",
                                   session_token |-> session_token,
                                   user_id |-> user_id]
    /\ UNCHANGED <<lo, me, otherVars>>

\* logout: `if session_token in active_sessions`, and the 401
LogoutCheck(k, session_token) ==
    /\ lo[k].pc \in {"idle", "done"}
    /\ lo' = [lo EXCEPT ![k] =
                IF session_token \in DOMAIN active_sessions
                THEN [pc |-> "del", session_token |-> session_token,
                      response |-> "",
                      wasIssued |-> session_token \in DOMAIN issued]
                ELSE [pc |-> "done", session_token |-> session_token,
                      response |-> "401",
                      wasIssued |-> session_token \in DOMAIN issued]]
    /\ UNCHANGED <<active_sessions, nextToken, lastLogin, me, issued, otherVars>>

\* logout: `del active_sessions[session_token]`, which raises KeyError when
\* another thread has deleted the entry since the test
LogoutDel(k) ==
    /\ lo[k].pc = "del"
    /\ IF lo[k].session_token \in DOMAIN active_sessions
       THEN /\ active_sessions' = DictDel(active_sessions, lo[k].session_token)
            /\ issued' = [t \in (DOMAIN issued) \ {lo[k].session_token} |-> issued[t]]
            /\ lo' = [lo EXCEPT ![k].pc = "done", ![k].response = "200"]
       ELSE /\ lo' = [lo EXCEPT ![k].pc = "done", ![k].response = "500"]
            /\ UNCHANGED <<active_sessions, issued>>
    /\ UNCHANGED <<nextToken, lastLogin, me, otherVars>>

\* the headers used: "Bearer <token>", and "<token>" with no scheme
Headers == {<<"Bearer", t>> : t \in KnownTokens} \cup {<<t>> : t \in KnownTokens}

\* get_current_user_data: authorization.split(" ")[1] (IndexError without a
\* second word), the 401 of `if not user_id`, then the SELECT and its 404
GetCurrentUserData(authorization) ==
    /\ me' = IF Len(authorization) < 2
             THEN [authorization |-> authorization, response |-> "500",
                   wasIssued |-> FALSE]
             ELSE LET session_token == authorization[2]
                      user_id == DictGet(active_sessions, session_token)
                  IN [authorization |-> authorization,
                      response |-> IF user_id = 0 THEN "401"
                                   ELSE IF user_id \in DOMAIN users THEN "200"
                                   ELSE "404",
                      wasIssued |-> session_token \in DOMAIN issued]
    /\ UNCHANGED <<active_sessions, nextToken, lo, lastLogin, issued, otherVars>>

NextSession ==
    \/ \E c \in LoginInputs : Login(c[1], c[2])
    \/ \E k \in Logouts, t \in KnownTokens : LogoutCheck(k, t)
    \/ \E k \in Logouts : LogoutDel(k)
    \/ \E h \in Headers : GetCurrentUserData(h)

SpecSession == Init /\ [][NextSession]_vars

(***************************************************************************)
(* The two scripts run from the shell (their __main__ blocks), on a        *)
(* database that starts empty or with one account, while accounts sign up. *)
(***************************************************************************)
\* the number of accounts the database starts with
ScriptSeeds == 0..(SeedUsers - 1)

InitScripts ==
    /\ \E n \in ScriptSeeds :
          /\ users = [u \in 1..n |-> SignupRow]
          /\ nextUserId = n + 1
          /\ login = [u \in 1..n |-> [username |-> SeedNames[u]]]
    /\ preprocessed = [ver |-> 0, rows |-> EmptyRows, src |-> EmptyRows]
    /\ recommended = [ver |-> 0, rows |-> EmptyRows, src |-> EmptyRows]
    /\ su = [s \in Signups |-> [pc |-> "idle", username |-> "", user_id |-> 0,
                                response |-> ""]]
    /\ reg = [r \in Regs |-> IdleReg]
    /\ rd = [g \in Reads |-> [pc |-> "idle", user_id |-> 0, obs |-> <<>>,
                              expected |-> <<>>, midWrite |-> FALSE,
                              response |-> ""]]
    /\ failures = 0
    /\ argsortKind \in ArgsortKinds
    /\ lastComplete = EmptyRows
    /\ InitSessions
    /\ InitRankIdle

\* python preprocessing.py, to be followed by python similarity.py
ScriptStart(r) ==
    /\ reg[r].pc = "idle"
    /\ \A q \in Regs : q < r => reg[q].pc # "idle"
    /\ reg' = [reg EXCEPT ![r].pc = "pre_load"]
    /\ UNCHANGED <<dbVars, su, rd, failures, lastComplete, argsortKind, rkVars>>

NextScripts ==
    \/ \E s \in Signups, name \in Usernames : SignupSelect(s, name)
    \/ \E s \in Signups : SignupInsertUser(s)
    \/ \E s \in Signups : SignupInsertLogin(s)
    \/ \E r \in Regs : ScriptStart(r)
    \/ \E r \in Regs : PreLoad(r)
    \/ \E r \in Regs : PreDelete(r)
    \/ \E r \in Regs : PreInsert(r)
    \/ \E r \in Regs : PreCommit(r)
    \/ \E r \in Regs : SimLoad(r)
    \/ \E r \in Regs : SimDelete(r)
    \/ \E r \in Regs : SimInsert(r)
    \/ \E r \in Regs : SimCommit(r)

SpecScripts == InitScripts /\ [][NextScripts]_vars

(***************************************************************************)
(* Signup requests served concurrently: every await of the handler is a    *)
(* point where another request's statements can run, and asyncpg commits   *)
(* each statement by itself.                                               *)
(***************************************************************************)
SignupReqs == 1..MaxSignupReqs

InitSignup ==
    /\ \E n \in 0..SeedUsers :
          /\ users = [u \in 1..n |-> SignupRow]
          /\ nextUserId = n + 1
          /\ login = [u \in 1..n |-> [username |-> SeedNames[u]]]
    /\ preprocessed = [ver |-> 0, rows |-> EmptyRows, src |-> EmptyRows]
    /\ recommended = [ver |-> 0, rows |-> EmptyRows, src |-> EmptyRows]
    /\ su = [s \in SignupReqs |-> [pc |-> "idle", username |-> "", user_id |-> 0,
                                   response |-> ""]]
    /\ reg = [r \in Regs |-> IdleReg]
    /\ rd = [g \in Reads |-> [pc |-> "idle", user_id |-> 0, obs |-> <<>>,
                              expected |-> <<>>, midWrite |-> FALSE,
                              response |-> ""]]
    /\ failures = 0
    /\ argsortKind \in ArgsortKinds
    /\ lastComplete = EmptyRows
    /\ InitSessions
    /\ InitRankIdle

NextSignup ==
    \/ \E s \in SignupReqs, name \in Usernames : SignupSelect(s, name)
    \/ \E s \in SignupReqs : SignupInsertUser(s)
    \/ \E s \in SignupReqs : SignupInsertLogin(s)

SpecSignup == InitSignup /\ [][NextSignup]_vars

(***************************************************************************)
(* Properties                                                              *)
(***************************************************************************)
RowOfId(features, u) == CHOOSE i \in 1..Len(features) : features[i]["user_id"] = u

\* combinedMatrix[rkIdx][j] for the profile with user_id u
CombinedScore(u) ==
    compute_multi_dimensional_similarity(rkFeatures)[rkIdx][RowOfId(rkFeatures, u)]

\* the score the code sorts by, for the profile with user_id u
FinalScore(u) ==
    final_score(compute_multi_dimensional_similarity(rkFeatures), rkFeatures,
                rkIdx, RowOfId(rkFeatures, u))

\* non-increasing scores, equal scores in ascending user_id
MostCompatibleFirst(list, Score(_)) ==
    \A i \in 1..(Len(list) - 1) :
        \/ Score(list[i]) > Score(list[i + 1])
        \/ Score(list[i]) = Score(list[i + 1]) /\ list[i] < list[i + 1]

OwnId == rkFeatures[rkIdx]["user_id"]

\* C1: the list produced for a profile never contains that profile's own
\* user_id, whatever the vectors (all-zero, identical, ...).
C1_NoSelfRecommendation ==
    rkPc = "done" => \A i \in 1..Len(rkList) : rkList[i] # OwnId

\* C2: the list is ordered most-compatible-first: scores non-increasing from
\* the first entry to the last, equal scores in ascending user_id.  Stated
\* for either score one may mean (the combined similarity or the final
\* score), and for the lists that hold no own user_id.
C2_MostCompatibleFirst ==
    rkPc = "done" /\ OwnId \notin Range(rkList) =>
        \/ MostCompatibleFirst(rkList, CombinedScore)
        \/ MostCompatibleFirst(rkList, FinalScore)

\* C3: the profiles recommended for p are the min(k, N-1) other profiles
\* with the highest combined similarity to p, and their order in the list is
\* an order of their combined similarity (in one direction or the other).
C3_TopKByCombinedSimilarity ==
    rkPc = "done" =>
        /\ Len(rkList) = Min(rkTopK, Len(rkFeatures) - 1)
        /\ \A i \in 1..Len(rkList) : rkList[i] # OwnId
        /\ \A u \in BatchIds(rkFeatures) \ (Range(rkList) \cup {OwnId}) :
              \A i \in 1..Len(rkList) : CombinedScore(u) <= CombinedScore(rkList[i])
        /\ \/ \A i \in 1..(Len(rkList) - 1) :
                    CombinedScore(rkList[i]) >= CombinedScore(rkList[i + 1])
           \/ \A i \in 1..(Len(rkList) - 1) :
                    CombinedScore(rkList[i]) <= CombinedScore(rkList[i + 1])

\* C4: for N >= 1 profiles and k >= 1 each list has exactly min(k, N-1)
\* entries, all of them user_ids of the batch, none repeated.
C4_ListLength ==
    rkPc = "done" =>
        /\ Len(rkList) = Min(rkTopK, Len(rkFeatures) - 1)
        /\ Range(rkList) \subseteq BatchIds(rkFeatures)
        /\ \A i, j \in 1..Len(rkList) : rkList[i] = rkList[j] => i = j

\* a run with k > N-1 on at least two profiles: the list has N-1 entries
C4_Witness ==
    /\ rkPc = "done"
    /\ Len(rkFeatures) >= 2
    /\ rkTopK > Len(rkFeatures) - 1
    /\ Len(rkList) = Len(rkFeatures) - 1

\* C5: a reader of `recommended` observes the row of the set the last
\* committed refresh computed (the previous set while a refresh is writing,
\* the new one after its commit), never that of an emptied or partly
\* inserted set.
C5_ReaderSeesCompleteSet ==
    /\ recommended.rows = lastComplete
    /\ \A g \in Reads :
          rd[g].pc \in {"select_partners", "done"} /\ rd[g].response # "404"
              => rd[g].obs = rd[g].expected

\* a reader got the row of the previous set while a refresh had inserted
\* some but not all rows of the new one
C5_Witness ==
    \E g \in Reads :
        /\ rd[g].pc \in {"select_partners", "done"}
        /\ rd[g].midWrite
        /\ rd[g].obs # <<>>

\* a request's pipeline run: from its read of `users` to its last write
InRun(r) ==
    reg[r].pc \in {"pre_delete", "pre_insert", "pre_commit", "sim_load",
                   "sim_delete", "sim_insert", "sim_commit"}

\* C6: the pipeline runs of two register_preferences requests never overlap.
C6_MutualExclusion ==
    \A r1, r2 \in Regs : r1 # r2 => ~(InRun(r1) /\ InRun(r2))

\* encode, similarity and rank on one value of the users table
PipelineResult(usersValue, kind) ==
    LET features == FeaturesFrame(EncodedRows(UsersFrame(usersValue)))
    IN advanced_recommendation_strategy(
           compute_multi_dimensional_similarity(features), features,
           DefaultTopK, kind)

\* C7: the committed contents of `recommended` are what encode, similarity
\* and rank give on one value the users table had (the one read by the
\* preprocessing run whose rows the committing similarity run loaded);
\* before the first commit the table is empty.
C7_SingleSnapshot ==
    \/ recommended.ver = 0 /\ recommended.rows = EmptyRows
    \/ /\ recommended.src # EmptyRows
       /\ recommended.rows = PipelineResult(recommended.src, argsortKind)

\* `recommended` holds a set computed from an older value of users while
\* another request's run is under way
C7_Witness ==
    /\ recommended.ver >= 1
    /\ recommended.src # users
    /\ \E r \in Regs : InRun(r) /\ reg[r].src # recommended.src /\ reg[r].src # EmptyRows

\* C8: a refresh that failed at a step leaves the committed contents of
\* `recommended` as they were: a request whose preprocessing stage failed
\* does not change them afterwards.
C8_FailedRefreshKeepsRecommended ==
    [][\A r \in Regs :
          (reg[r].preExit = 1 /\ reg[r].pc = "sim_commit" /\ reg'[r].pc = "respond")
              => recommended'.rows = recommended.rows]_vars

\* C9: the success message is returned only if both stages exited with 0.
C9_FailureReported ==
    \A r \in Regs :
        reg[r].response = "recommendations generated"
            => reg[r].preExit = 0 /\ reg[r].simExit = 0

\* a category outside every vocabulary: the empty string signup writes
HasUnknownCategory(row) ==
    \E c \in categorical_cols : row[c] = ""

\* C10: a batch with a profile whose category is outside the vocabulary is
\* never encoded into `preprocessed` nor ranked into `recommended`.
C10_UnknownCategoryAborts ==
    /\ \A u \in DOMAIN preprocessed.src : ~HasUnknownCategory(preprocessed.src[u])
    /\ \A u \in DOMAIN recommended.src : ~HasUnknownCategory(recommended.src[u])

\* C11: a refresh that finds `users` empty completes without error (and
\* leaves `preprocessed` and `recommended` without rows): the preprocessing
\* step that reads an empty `users` does not exit with status 1.
C11_EmptyBatchSucceeds ==
    [][\A r \in Regs :
          (reg[r].pc = "pre_load" /\ DOMAIN users = {} /\ reg'[r].pc # "pre_load")
              => reg'[r].preExit # 1]_vars

\* C12: get_recommendations answers with an empty sequence, not an error,
\* when the profile has no computed recommendations and also when the
\* profile id is unknown.
C12_UnknownProfileEmpty ==
    \A g \in Reads :
        rd[g].pc = "done" /\ (rd[g].user_id \notin DOMAIN users \/ rd[g].obs = <<>>)
            => rd[g].response = "200 empty"

\* C13: after a successful refresh the rows of `recommended` are exactly the
\* dict that refresh computed: one row for every user_id of the snapshot it
\* was computed from, and no row for any other user_id.
C13_RowsMatchSnapshot ==
    [][\A r \in Regs :
          (reg[r].pc = "sim_commit" /\ reg'[r].simExit = 0)
              => /\ recommended'.rows = reg[r].out
                 /\ DOMAIN recommended'.rows = DOMAIN reg[r].src]_vars

\* a refresh computed from an older snapshot has run its DELETE and INSERTs
\* and is at its commit, while `recommended` holds a row for a user_id that
\* is absent from that snapshot
C13_Witness ==
    \E r \in Regs :
        /\ reg[r].pc = "sim_commit"
        /\ DOMAIN reg[r].out # {}
        /\ DOMAIN reg[r].out = DOMAIN reg[r].src
        /\ (DOMAIN recommended.rows) \ (DOMAIN reg[r].src) # {}

\* no other request has written the row of users this request wrote
OnlyWriter(r) ==
    \A q \in Regs \ {r} : reg[q].user_id # reg[r].user_id

\* C14: when a register_preferences request whose two stages succeeded
\* returns its response, `recommended` was computed from a snapshot of users
\* taken after the request's own UPDATE: the snapshot holds the values the
\* request wrote (no other request having written that row).
C14_FreshAfterSuccess ==
    [][\A r \in Regs :
          (/\ reg[r].pc = "respond" /\ reg'[r].pc = "done"
           /\ reg[r].preExit = 0 /\ reg[r].simExit = 0
           /\ OnlyWriter(r))
              => /\ reg[r].user_id \in DOMAIN recommended.src
                 /\ recommended.src[reg[r].user_id] = reg[r].prefs]_vars

\* C15: two refreshes on identical contents of users give identical
\* recommendations: for each user the same ids in the same order, entries of
\* equal score included.
C15_Deterministic ==
    rkPc = "done2" => rk2List = rkList

\* C16: the columns of the encoded vector are the same in every recompute,
\* whatever categorical values occur in the batch: the rows a preprocessing
\* run has encoded have the one-hot columns of the rows in `preprocessed`.
C16_StableColumns ==
    \A r \in Regs :
        reg[r].pc \in {"pre_delete", "pre_insert", "pre_commit"} =>
            \A u \in DOMAIN reg[r].out, v \in DOMAIN preprocessed.rows :
                reg[r].out[u]["dummy_columns"] = preprocessed.rows[v]["dummy_columns"]

\* C17: called with top_k <= 0 the ranker gives every profile an empty list.
C17_NonPositiveKEmpty ==
    (rkPc = "done" /\ rkTopK <= 0) => rkList = <<>>

\* the sum over the four groups of weight[group] * groupSim[group][i][j]
FourGroupSum(w, features, i, j) ==
    w["preferred_weight"] * cosine_similarity(features, "preferred")[i][j]
    + w["strength_weight"] * cosine_similarity(features, "strength")[i][j]
    + w["weak_weight"] * weak_sim(features)[i][j]
    + w["demographic_weight"] * demographic_sim(features)[i][j]

C19_Symmetric ==
    (rkPc = "done" /\ smMatrix # <<>>) =>
        \A i, j \in 1..Len(rkFeatures) : smMatrix[i][j] = smMatrix[j][i]

\* a matrix of two profiles with different vectors and a non-zero entry
\* off the diagonal
C19_Witness ==
    /\ rkPc = "done"
    /\ Len(smMatrix) = 2
    /\ rkFeatures[1]["preferred"] # rkFeatures[2]["preferred"]
    /\ smMatrix[1][2] > 0
    /\ smMatrix[1][2] < smMatrix[1][1]

SubjectGroups == {"preferred", "strength", "weak"}

\* C20: a profile with an empty preferred, strength or weakness set does not
\* make the refresh fail.  Its similarity in that group to every profile,
\* itself included, is 0; the dict a similarity run computes has a row for
\* it and for every other profile; and a request that runs alone, with no
\* failure injected, ends with both stages exited 0.
C20_DegenerateVectorHandled ==
    /\ LET features == FeaturesFrame(preprocessed.rows)
       IN \A i \in 1..Len(features), g \in SubjectGroups :
             features[i][g] = {} =>
                \A j \in 1..Len(features) :
                    /\ cosine_similarity(features, g)[i][j] = 0
                    /\ cosine_similarity(features, g)[j][i] = 0
    /\ \A r \in Regs :
          reg[r].pc \in {"sim_delete", "sim_insert", "sim_commit"} =>
              DOMAIN reg[r].out = DOMAIN reg[r].src
    /\ \A r \in Regs :
          (/\ reg[r].pc \in {"respond", "done"} /\ reg[r].response # "404"
           /\ failures = 0
           /\ \A q \in Regs \ {r} : reg[q].pc = "idle")
              => reg[r].preExit = 0 /\ reg[r].simExit = 0

\* a request that ran alone has finished with both stages exited 0, and the
\* batch it committed holds a profile with all three sets empty
C20_Witness ==
    /\ \E r \in Regs : reg[r].pc = "done" /\ reg[r].preExit = 0 /\ reg[r].simExit = 0
    /\ \A q \in Regs : reg[q].pc \in {"idle", "done"}
    /\ failures = 0
    /\ \E u \in DOMAIN recommended.rows :
          /\ recommended.src[u]["preferred_subjects"] = {}
          /\ recommended.src[u]["strengths"] = {}
          /\ recommended.src[u]["weaknesses"] = {}

\* the positions of a request inside preprocessing.py and inside similarity.py
PreprocessingPcs == {"pre_load", "pre_delete", "pre_insert", "pre_commit"}
SimilarityPcs == {"sim_load", "sim_delete", "sim_insert", "sim_commit"}

\* C21: no step of a refresh (a statement, commit, rollback or exit of
\* preprocessing.py or of similarity.py) inserts, updates or deletes a row of
\* `users` or of `login`, or advances the sequence of users.user_id; the
\* preprocessing stage leaves `recommended` alone and the similarity stage
\* leaves `preprocessed` alone.
C21_RefreshLeavesProfiles ==
    [][\A r \in Regs :
          (reg[r].pc \in PreprocessingPcs \cup SimilarityPcs /\ reg'[r] # reg[r])
              => /\ users' = users
                 /\ login' = login
                 /\ nextUserId' = nextUserId
                 /\ reg[r].pc \in PreprocessingPcs => recommended' = recommended
                 /\ reg[r].pc \in SimilarityPcs => preprocessed' = preprocessed]_vars

\* a request's refresh has committed both tables and is about to respond;
\* `users` holds the row the request wrote and `login` the seeded accounts
C21_Witness ==
    \E r \in Regs :
        /\ reg[r].pc = "respond" /\ reg[r].preExit = 0 /\ reg[r].simExit = 0
        /\ DOMAIN preprocessed.rows # {} /\ DOMAIN recommended.rows # {}
        /\ users[reg[r].user_id] = reg[r].prefs
        /\ DOMAIN login = DOMAIN users

\* C22 (first part): a request's similarity.py runs only after its
\* preprocessing.py has exited
SimilarityAfterPreprocessing ==
    \A r \in Regs : reg[r].pc \in SimilarityPcs => reg[r].preExit # -1

\* C22 (second part): while a request's preprocessing.py runs, the request's
\* UPDATE is committed: `users` and the snapshot the script read hold the
\* values the request wrote (no other request having written that row)
UpdateBeforePreprocessing ==
    \A r \in Regs :
        (reg[r].pc \in PreprocessingPcs /\ OnlyWriter(r))
            => /\ users[reg[r].user_id] = reg[r].prefs
               /\ reg[r].pc # "pre_load" => reg[r].src[reg[r].user_id] = reg[r].prefs

\* C22 (third part): a response other than the 404 is sent only after the
\* request's similarity.py has exited
ResponseAfterSimilarity ==
    \A r \in Regs :
        (reg[r].pc = "done" /\ reg[r].response # "404") => reg[r].simExit # -1

\* C22: within one register_preferences request, similarity.py starts only
\* after the request's preprocessing.py has terminated, the UPDATE of users
\* is committed before preprocessing.py starts, and the response is sent only
\* after similarity.py has terminated.
C22_StagesInOrder ==
    /\ SimilarityAfterPreprocessing
    /\ UpdateBeforePreprocessing
    /\ ResponseAfterSimilarity

\* the rows of login with the username `name`
LoginRowsNamed(name) == {u \in DOMAIN login : login[u]["username"] = name}

\* C23: once the signup requests have returned, every row of users a signup
\* inserted has its row in login (login's primary key allows one at most),
\* no two rows of login share a username, and a signup that failed (400, or
\* the INSERT INTO login was rejected) has left no row in users.
C23_SignupConsistent ==
    (\A s \in DOMAIN su : su[s].pc \in {"idle", "done"}) =>
        /\ \A s \in DOMAIN su :
              su[s].user_id \in DOMAIN users =>
                  /\ su[s].user_id \in DOMAIN login
                  /\ login[su[s].user_id]["username"] = su[s].username
        /\ \A u \in DOMAIN login : LoginRowsNamed(login[u]["username"]) = {u}
        /\ \A s \in DOMAIN su :
              su[s].response \in {"400", "500"} => su[s].user_id \notin DOMAIN users

\* active_sessions holds exactly the tokens of successful logins that no
\* successful logout has been given since, each with the user who logged in;
\* get_current_user_data, given "<scheme> <token>", answered 401 exactly when
\* the token was not one of them; a logout called with a token that was not
\* one of them answered 401
SessionsAreIssuedTokens ==
    /\ active_sessions = issued
    /\ (me.response # "" /\ Len(me.authorization) = 2)
          => (me.response # "401" <=> me.wasIssued)
    /\ \A k \in Logouts :
          (lo[k].pc = "done" /\ ~lo[k].wasIssued) => lo[k].response = "401"

\* C24: in every reachable state active_sessions maps a token to user u
\* exactly when the token was returned by a successful login of u and has
\* not been passed to a successful logout since; get_current_user_data
\* accepts exactly those tokens; a logout with an unknown or already
\* logged-out token returns 401 and leaves active_sessions unchanged.
C24_ActiveSessions ==
    /\ []SessionsAreIssuedTokens
    /\ [][\A k \in Logouts :
             (lo'[k] # lo[k] /\ ~lo'[k].wasIssued)
                 => active_sessions' = active_sessions]_vars

\* two tokens were handed out; one has been logged out and a second logout
\* with it was answered 401, the other is still in the dict and
\* get_current_user_data has accepted it
C24_Witness ==
    \E t1, t2 \in 1..nextToken :
        /\ t1 \notin DOMAIN active_sessions
        /\ t2 \in DOMAIN active_sessions
        /\ \E k \in Logouts :
              lo[k].pc = "done" /\ lo[k].session_token = t1 /\ lo[k].response = "401"
        /\ me.authorization = <<"Bearer", t2>> /\ me.response = "200"

\* the final score between the profiles with user_id u and v, looked up by
\* user_id in the batch and in the matrix computed from it
ScoreBetween(u, v) ==
    final_score(smMatrix, rkFeatures, RowOfId(rkFeatures, u), RowOfId(rkFeatures, v))

\* C25: in every committed state of `recommended`, each row's list holds
\* pairwise distinct user_ids, every one the user_id of a profile of the
\* batch the refresh read, and matrix row i and profile i of the batch are
\* the same user: the list stored under user_id u is in the order of the
\* scores between u's own matrix row and the listed users (the order the
\* code returns: lowest score first), and there is one list per profile.
C25_ListsAlignedWithBatch ==
    rkPc = "done" =>
        /\ DOMAIN recommended.rows = BatchIds(rkFeatures)
        /\ \A u \in DOMAIN recommended.rows :
              LET list == recommended.rows[u]
              IN /\ \A i, j \in 1..Len(list) : list[i] = list[j] => i = j
                 /\ Range(list) \subseteq BatchIds(rkFeatures)
                 /\ \A i \in 1..(Len(list) - 1) :
                       ScoreBetween(u, list[i]) <= ScoreBetween(u, list[i + 1])

\* a committed batch of three profiles read in descending user_id (row 1 is
\* not user 1), with a list of two entries of different scores
C25_Witness ==
    /\ rkPc = "done"
    /\ Len(rkFeatures) = 3
    /\ rkFeatures[1]["user_id"] # 1
    /\ \E u \in DOMAIN recommended.rows :
          /\ Len(recommended.rows[u]) = 2
          /\ ScoreBetween(u, recommended.rows[u][1]) < ScoreBetween(u, recommended.rows[u][2])

=============================================================================
